---- MODULE Spec2Model ----
(***************************************************************************)
(* Model of the PBC data pipelines of data-processing/pbc-dataset:         *)
(*   convert_pbc_to_csv.py      text file -> pbc_data.csv, pbc_ml_ready.csv *)
(*   load_pbc_data.py           CSV -> table -> (T, E, X)                   *)
(*   extract_pbc_to_postgres.py text file -> pbc_patients (PostgreSQL)      *)
(*                                                                         *)
(* Numbers are fixed-point integers in thousandths (Scale), so 0.5 is 500  *)
(* and 137.95 is 137950.  A text field is a sequence of characters; pandas' *)
(* parsing and formatting of fields are computed on those characters.      *)
(***************************************************************************)
EXTENDS Integers, Sequences, FiniteSets, TLC

VARIABLES
    \* ---- convert_pbc_to_csv.py / load_pbc_data.py
    cpc,                \* position of the CSV pipeline
    txt,                \* pbc.dat.txt: a sequence of lines, each 20 fields
    df,                 \* convert_pbc_to_csv: df
    pbc_data_csv,       \* file pbc_data.csv
    pbc_ml_ready_csv,   \* file pbc_ml_ready.csv
    csv_path,           \* load_pbc_data: csv_path
    loaded,             \* load_pbc_data: returned df
    argdf,              \* get_survival_data: its argument df
    surv,               \* get_survival_data: outcome
    \* ---- extract_pbc_to_postgres.py
    pc,                 \* position in main()
    datafile,           \* pbc.dat.txt as main() finds it
    schemafile,         \* pbc_schema.sql as main() finds it
    mdf,                \* main: df
    locals,             \* main: which of 'conn', 'cursor' are bound
    conns,              \* the connection of this run: "none", "open", "closed"
    cursors,            \* the cursor of this run: "none", "open", "closed"
    txn,                \* the connection's open transaction (uncommitted view)
    committed,          \* committed database contents
    committed0,         \* committed database contents when main() started
    exc,                \* exception in flight / caught
    printed,            \* error messages printed by the except clauses
    hist                \* bookkeeping about the run (what was executed, commits)

cvars == <<cpc, txt, df, pbc_data_csv, pbc_ml_ready_csv, csv_path, loaded, argdf, surv>>
mvars == <<pc, datafile, schemafile, mdf, locals, conns, cursors, txn, committed,
           committed0, exc, printed, hist>>
vars == <<cvars, mvars>>

(***************************************************************************)
(* Bounds                                                                  *)
(***************************************************************************)
MaxRows == 3        \* lines of pbc.dat.txt in the CSV pipeline
MaxBatch == 2       \* lines of pbc.dat.txt in the database loader
MaxStmts == 2       \* statements in pbc_schema.sql
MaxRuns == 2        \* consecutive runs of main() against the same database
page_size == 1      \* rows per page of execute_values, scaled down from 100

Scale == 10 * 10 * 10

Range(s) == {s[i] : i \in DOMAIN s}
IndexOf(s, x) == CHOOSE i \in DOMAIN s : s[i] = x

(***************************************************************************)
(* Column names                                                            *)
(***************************************************************************)
columns == <<"id", "futime", "status", "drug", "age", "sex", "ascites", "hepato",
             "spiders", "edema", "bili", "chol", "albumin", "copper", "alk_phos",
             "sgot", "trig", "platelet", "protime", "stage">>

\* variant: the file is written without the treatment indicator
derived_columns_four == <<"age_years", "death_event", "male", "female">>

derived_columns == <<"age_years", "death_event", "male", "female", "drug_treatment">>

categorical_cols == <<"drug", "sex", "ascites", "hepato", "spiders", "stage",
                      "death_event", "male", "female", "drug_treatment">>

feature_cols == <<"age_years", "male", "ascites", "hepato", "spiders", "edema",
                  "bili", "chol", "albumin", "copper", "alk_phos", "sgot",
                  "trig", "platelet", "protime", "stage", "drug_treatment">>

(***************************************************************************)
(* Cells and frames.  A cell is a record [na, v]; a missing cell (NaN, <NA>) *)
(* is NA.  A frame has its column names in order, a dtype per column and   *)
(* its rows in order.                                                      *)
(***************************************************************************)
NA == [na |-> TRUE, v |-> 0]
Num(v) == [na |-> FALSE, v |-> v]
Flag(b) == Num(IF b THEN Scale ELSE 0)      \* (boolean).astype(int)

NoFrame == [cols |-> <<>>, dtype |-> <<>>, rows |-> <<>>]

(***************************************************************************)
(* Text of a number, as pandas parses and writes it                        *)
(***************************************************************************)
Digits == <<"0", "1", "2", "3", "4", "5", "6", "7", "8", "9">>
DigitVal(ch) == IndexOf(Digits, ch) - 1
DigitChar(d) == Digits[d + 1]

HasPoint(tok) == \E i \in DOMAIN tok : tok[i] = "."

RECURSIVE IntOf(_)
IntOf(ds) ==        \* value of a digit string
    IF ds = <<>> THEN 0
    ELSE 10 * IntOf(SubSeq(ds, 1, Len(ds) - 1)) + DigitVal(ds[Len(ds)])

Pad3(ds) ==         \* fraction digits as thousandths
    IF Len(ds) = 0 THEN <<"0", "0", "0">>
    ELSE IF Len(ds) = 1 THEN ds \o <<"0", "0">>
    ELSE IF Len(ds) = 2 THEN ds \o <<"0">>
    ELSE SubSeq(ds, 1, 3)

ParseNumber(tok) == \* the float/int parser of read_csv, in thousandths
    IF HasPoint(tok)
    THEN LET p == IndexOf(tok, ".")
         IN  IntOf(SubSeq(tok, 1, p - 1)) * Scale
               + IntOf(Pad3(SubSeq(tok, p + 1, Len(tok))))
    ELSE IntOf(tok) * Scale

RECURSIVE FormatInt(_)
FormatInt(n) ==     \* str(int)
    IF n < 10 THEN <<DigitChar(n)>>
    ELSE FormatInt(n \div 10) \o <<DigitChar(n % 10)>>

FormatFrac(f) ==    \* digits after the point of repr(float): no trailing zeros, at least one
    IF f % 100 = 0 THEN <<DigitChar(f \div 100)>>
    ELSE IF f % 10 = 0 THEN <<DigitChar(f \div 100), DigitChar((f \div 10) % 10)>>
    ELSE <<DigitChar(f \div 100), DigitChar((f \div 10) % 10), DigitChar(f % 10)>>

FormatFloat(v) ==   \* repr(float)
    FormatInt(v \div Scale) \o <<".">> \o FormatFrac(v % Scale)


(***************************************************************************)
(* pandas: read_csv, to_csv                                                *)
(***************************************************************************)
\* A CSV file: the header row and the data lines, field by field.
NoFile == [header |-> <<>>, lines |-> <<>>]

\* read_csv's na_values: the defaults (of which the empty field is the only
\* one these files can hold) plus the caller's.
NaTokens(na_values) == {<<>>} \cup na_values

ParseCell(tok, na) == IF tok \in na THEN NA ELSE Num(ParseNumber(tok))

\* dtype inference of a numeric column: float64 as soon as one field is
\* missing or has a decimal point, int64 otherwise.
InferDtype(toks, na) ==
    IF \E t \in toks : t \in na \/ HasPoint(t) THEN "float64" ELSE "int64"

read_csv(lines, names, na_values) ==
    LET na == NaTokens(na_values)
        field(i, c) == lines[i][IndexOf(names, c)]
    IN  [cols  |-> names,
         dtype |-> [c \in Range(names) |->
                       InferDtype({field(i, c) : i \in DOMAIN lines}, na)],
         rows  |-> [i \in DOMAIN lines |->
                       [c \in Range(names) |-> ParseCell(field(i, c), na)]]]

\* variant: a missing cell is written as 0
FormatCell_nan_zero(cell, dt) ==
    IF cell.na THEN <<"0">>
    ELSE IF dt = "float64" THEN FormatFloat(cell.v)
    ELSE FormatInt(cell.v \div Scale)

\* to_csv writes a missing cell as the empty field (na_rep=''), an integer
\* column as digits and a float column as repr(float).
FormatCell(cell, dt) ==
    IF cell.na THEN <<>>
    ELSE IF dt = "float64" THEN FormatFloat(cell.v)
    ELSE FormatInt(cell.v \div Scale)

to_csv(f) ==
    [header |-> f.cols,
     lines  |-> [i \in DOMAIN f.rows |->
                   [j \in DOMAIN f.cols |->
                      FormatCell(f.rows[i][f.cols[j]], f.dtype[f.cols[j]])]]]

(***************************************************************************)
(* convert_pbc_to_csv.py                                                   *)
(***************************************************************************)
IsVal(cell, n) == ~cell.na /\ cell.v = n * Scale    \* (column == n): NaN == n is False

\* df_ml['age'] / 365.25, kept to two decimals; NaN stays NaN
age_years(cell) ==
    IF cell.na THEN NA ELSE Num(((cell.v * 4 + 7305) \div 14610) * 10)

\* variant: any status other than 0 counts as the event
death_event_nonzero(row) == Flag(~IsVal(row["status"], 0))

death_event(row) == Flag(IsVal(row["status"], 2))
male(row) == Flag(IsVal(row["sex"], 0))
\* variant: female is the complement of male
female_not_male(row) == Flag(~IsVal(row["sex"], 0))

female(row) == Flag(IsVal(row["sex"], 1))
drug_treatment(row) == Flag(IsVal(row["drug"], 1))

MlRow(row) ==
    [c \in DOMAIN row \cup Range(derived_columns) |->
        CASE c = "age_years"      -> age_years(row["age"])
          [] c = "death_event"    -> death_event(row)
          [] c = "male"           -> male(row)
          [] c = "female"         -> female(row)
          [] c = "drug_treatment" -> drug_treatment(row)
          [] OTHER                -> row[c]]

\* df_ml: df.copy() with the derived columns appended in assignment order
df_ml(f) ==
    [cols  |-> f.cols \o derived_columns,
     dtype |-> [c \in Range(f.cols) \cup Range(derived_columns) |->
                  IF c \in Range(f.cols) THEN f.dtype[c]
                  ELSE IF c = "age_years" THEN "float64" ELSE "int64"],
     rows  |-> [i \in DOMAIN f.rows |-> MlRow(f.rows[i])]]

(***************************************************************************)
(* load_pbc_data.py                                                        *)
(***************************************************************************)
IsWhole(cell) == cell.na \/ cell.v % Scale = 0

\* read_csv(csv_path), then astype('Int64') on the categorical columns that
\* are present; the cast refuses a value with a fractional part.
load_pbc_data(file) ==
    LET f    == read_csv(file.lines, file.header, {})
        cats == Range(categorical_cols) \cap Range(f.cols)
        bad  == \E c \in cats : \E i \in DOMAIN f.rows : ~IsWhole(f.rows[i][c])
    IN  [err   |-> IF bad THEN "TypeError" ELSE "none",
         frame |-> IF bad THEN NoFrame
                   ELSE [f EXCEPT !.dtype =
                           [c \in DOMAIN f.dtype |->
                              IF c \in cats THEN "Int64" ELSE f.dtype[c]]]]

\* k-th smallest of the present values of a column
Kth(rows, c, k) ==
    LET P == {i \in DOMAIN rows : ~rows[i][c].na}
    IN  CHOOSE v \in {rows[i][c].v : i \in P} :
           /\ Cardinality({i \in P : rows[i][c].v < v}) < k
           /\ k <= Cardinality({i \in P : rows[i][c].v <= v})

\* Series.median(), skipna: NaN for a column with no present value
median(rows, c) ==
    LET n == Cardinality({i \in DOMAIN rows : ~rows[i][c].na})
    IN  IF n = 0 THEN NA
        ELSE IF n % 2 = 1 THEN Num(Kth(rows, c, (n + 1) \div 2))
        ELSE Num((Kth(rows, c, n \div 2) + Kth(rows, c, n \div 2 + 1)) \div 2)

HasNa(rows, c) == \E i \in DOMAIN rows : rows[i][c].na

\* X.fillna(X.median()) column by column.  A nullable-integer column cannot
\* take a fractional fill value: the assignment raises TypeError.
FillRaises(f) ==
    \E c \in Range(f.cols) :
        /\ f.dtype[c] = "Int64"
        /\ HasNa(f.rows, c)
        /\ ~median(f.rows, c).na
        /\ ~IsWhole(median(f.rows, c))

fillna_median(f) ==
    [f EXCEPT !.rows =
        [i \in DOMAIN f.rows |->
            [c \in DOMAIN f.rows[i] |->
                IF f.rows[i][c].na THEN median(f.rows, c) ELSE f.rows[i][c]]]]

Select(f, names) ==         \* df[names].copy()
    [cols  |-> names,
     dtype |-> [c \in Range(names) |-> f.dtype[c]],
     rows  |-> [i \in DOMAIN f.rows |-> [c \in Range(names) |-> f.rows[i][c]]]]

NoResult(status) == [status |-> status, T |-> <<>>, E |-> <<>>, X |-> NoFrame]

\* variant: feature columns the table lacks are left out
get_survival_data_lenient(f) ==
    LET have == SelectSeq(feature_cols, LAMBDA c : c \in Range(f.cols))
    IN  IF "futime" \notin Range(f.cols) THEN NoResult("KeyError")
        ELSE IF "death_event" \notin Range(f.cols) THEN NoResult("KeyError")
        ELSE IF FillRaises(Select(f, have)) THEN NoResult("TypeError")
        ELSE [status |-> "returned",
              T |-> [i \in DOMAIN f.rows |-> f.rows[i]["futime"]],
              E |-> [i \in DOMAIN f.rows |-> f.rows[i]["death_event"]],
              X |-> fillna_median(Select(f, have))]

get_survival_data(f) ==
    IF "futime" \notin Range(f.cols) THEN NoResult("KeyError")
    ELSE IF "death_event" \notin Range(f.cols) THEN NoResult("KeyError")
    ELSE IF ~(Range(feature_cols) \subseteq Range(f.cols)) THEN NoResult("KeyError")
    ELSE IF FillRaises(Select(f, feature_cols)) THEN NoResult("TypeError")
    ELSE [status |-> "returned",
          T |-> [i \in DOMAIN f.rows |-> f.rows[i]["futime"]],
          E |-> [i \in DOMAIN f.rows |-> f.rows[i]["death_event"]],
          X |-> fillna_median(Select(f, feature_cols))]


(***************************************************************************)
(* Input lines of pbc.dat.txt the model draws from.  Line1 is the first    *)
(* line of the dataset; the others vary the coded fields and carry the     *)
(* missing-value token '.' the way the later lines of the dataset do.      *)
(***************************************************************************)
Dot == <<".">>

Line1 ==
    << <<"1">>, <<"4", "0", "0">>, <<"2">>, <<"1">>, <<"2", "1", "4", "6", "4">>,
       <<"1">>, <<"1">>, <<"1">>, <<"1">>, <<"1", ".", "0">>,
       <<"1", "4", ".", "5">>, <<"2", "6", "1">>, <<"2", ".", "6", "0">>,
       <<"1", "5", "6">>, <<"1", "7", "1", "8">>, <<"1", "3", "7", ".", "9", "5">>,
       <<"1", "7", "2">>, <<"1", "9", "0">>, <<"1", "2", ".", "2">>, <<"4">> >>

\* the same patient with other values (a second write of identifier 1)
Line1b ==
    [Line1 EXCEPT ![2] = <<"4", "5", "0", "0">>, ![3] = <<"0">>,
                  ![11] = <<"1", ".", "1">>, ![20] = <<"3">>]

Line2 ==
    [Line1 EXCEPT ![1] = <<"2">>, ![2] = <<"4", "5", "0", "0">>, ![3] = <<"0">>,
                  ![4] = <<"2">>, ![5] = <<"2", "0", "6", "1", "7">>, ![6] = <<"0">>,
                  ![7] = <<"0">>, ![9] = <<"0">>, ![10] = <<"0", ".", "5">>,
                  ![11] = <<"1", ".", "1">>, ![12] = Dot, ![20] = <<"3">>]

Line3 ==
    [Line1 EXCEPT ![1] = <<"3">>, ![2] = <<"1", "0", "1", "2">>, ![3] = <<"1">>,
                  ![4] = Dot, ![6] = Dot, ![7] = Dot, ![8] = Dot, ![9] = Dot,
                  ![10] = <<"0", ".", "0">>, ![12] = Dot, ![14] = Dot, ![15] = Dot,
                  ![16] = Dot, ![17] = Dot, ![18] = Dot, ![20] = Dot]

Line4 ==
    [Line1 EXCEPT ![1] = <<"4">>, ![3] = Dot, ![5] = Dot, ![6] = <<"0">>,
                  ![8] = <<"0">>, ![11] = <<"0", ".", "8">>, ![20] = <<"1">>]

SampleLines == {Line1, Line2, Line3, Line4}

\* columns a caller's table may lack when it is handed to get_survival_data
DropChoices == {{}, {"chol"}, {"futime"}, {"male", "stage"}}

Drop(f, D) ==
    [cols  |-> SelectSeq(f.cols, LAMBDA c : c \notin D),
     dtype |-> [c \in Range(f.cols) \ D |-> f.dtype[c]],
     rows  |-> [i \in DOMAIN f.rows |-> [c \in Range(f.cols) \ D |-> f.rows[i][c]]]]

(***************************************************************************)
(* The database loader's variables are idle while the CSV pipeline runs.   *)
(***************************************************************************)
MainIdle ==
    /\ pc = "idle" /\ datafile = [exists |-> FALSE, lines |-> <<>>]
    /\ schemafile = [exists |-> FALSE, stmts |-> 0]
    /\ mdf = NoFrame /\ locals = {} /\ conns = "none" /\ cursors = "none"
    /\ txn = [ddl |-> {}, rows |-> {}] /\ committed = [ddl |-> {}, rows |-> {}]
    /\ committed0 = [ddl |-> {}, rows |-> {}]
    /\ exc = "none" /\ printed = <<>>
    /\ hist = [run |-> 0, stmts |-> 0, inserted |-> FALSE, commits |-> 0,
               rejected |-> FALSE]

(***************************************************************************)
(* The CSV pipeline: convert_pbc_to_csv(), then load_pbc_data(csv_path),   *)
(* then get_survival_data(df).                                             *)
(***************************************************************************)
CsvInit ==
    /\ cpc = "start"
    /\ txt \in UNION {[1..n -> SampleLines] : n \in 0..MaxRows}
    /\ df = NoFrame /\ pbc_data_csv = NoFile /\ pbc_ml_ready_csv = NoFile
    /\ csv_path = "" /\ loaded = NoFrame /\ argdf = NoFrame
    /\ surv = NoResult("not called")
    /\ MainIdle

\* convert_pbc_to_csv, line 37: read_csv raises EmptyDataError on a file
\* without lines, which nothing catches
ConvertRead ==
    /\ cpc = "start"
    /\ IF txt = <<>>
       THEN cpc' = "raised" /\ df' = df
       ELSE cpc' = "read" /\ df' = read_csv(txt, columns, {Dot})
    /\ UNCHANGED <<txt, pbc_data_csv, pbc_ml_ready_csv, csv_path, loaded, argdf, surv>>
    /\ UNCHANGED mvars

\* convert_pbc_to_csv, lines 44-45
ConvertSaveRaw ==
    /\ cpc = "read"
    /\ pbc_data_csv' = to_csv(df)
    /\ cpc' = "raw_saved"
    /\ UNCHANGED <<txt, df, pbc_ml_ready_csv, csv_path, loaded, argdf, surv>>
    /\ UNCHANGED mvars

\* convert_pbc_to_csv, lines 49-64
ConvertSaveMl ==
    /\ cpc = "raw_saved"
    /\ pbc_ml_ready_csv' = to_csv(df_ml(df))
    /\ cpc' = "converted"
    /\ UNCHANGED <<txt, df, pbc_data_csv, csv_path, loaded, argdf, surv>>
    /\ UNCHANGED mvars

\* load_pbc_data(csv_path) on either file the converter wrote
LoadPbcData ==
    /\ cpc = "converted"
    /\ \E path \in {"pbc_ml_ready.csv", "pbc_data.csv"} :
         LET file == IF path = "pbc_data.csv" THEN pbc_data_csv ELSE pbc_ml_ready_csv
             r    == load_pbc_data(file)
         IN  /\ csv_path' = path
             /\ loaded' = r.frame
             /\ cpc' = IF r.err = "none" THEN "loaded" ELSE "raised"
    /\ UNCHANGED <<txt, df, pbc_data_csv, pbc_ml_ready_csv, argdf, surv>>
    /\ UNCHANGED mvars

\* get_survival_data(df) on the loaded table, or on it less some columns
GetSurvivalData ==
    /\ cpc = "loaded"
    /\ \E D \in DropChoices :
         /\ argdf' = Drop(loaded, D)
         /\ surv' = get_survival_data(Drop(loaded, D))
    /\ cpc' = "done"
    /\ UNCHANGED <<txt, df, pbc_data_csv, pbc_ml_ready_csv, csv_path, loaded>>
    /\ UNCHANGED mvars

CsvNext ==
    \/ ConvertRead
    \/ ConvertSaveRaw
    \/ ConvertSaveMl
    \/ LoadPbcData
    \/ GetSurvivalData

SpecCsv == CsvInit /\ [][CsvNext]_vars


(***************************************************************************)
(* extract_pbc_to_postgres.py                                              *)
(***************************************************************************)
LoaderLines == {Line1, Line1b, Line3}

\* Exception classes main() can meet, each with its base class.
Base(cls) ==
    CASE cls = "FileNotFoundError" -> "OSError"
      [] cls = "OSError"           -> "Exception"
      [] cls = "EmptyDataError"    -> "ValueError"
      [] cls = "ValueError"        -> "Exception"
      [] cls = "OperationalError"  -> "psycopg2.Error"
      [] cls = "InterfaceError"    -> "psycopg2.Error"
      [] cls = "ProgrammingError"  -> "psycopg2.Error"
      [] cls = "DataError"         -> "psycopg2.Error"
      [] cls = "psycopg2.Error"    -> "Exception"
      [] OTHER                     -> "BaseException"

RECURSIVE IsInstance(_, _)
IsInstance(cls, of) ==
    \/ cls = of
    \/ cls # "BaseException" /\ IsInstance(Base(cls), of)

\* variant: the catch-all clause comes first
except_clauses_broad_first ==
    << [catch |-> "Exception",         print |-> "Unexpected error"],
       [catch |-> "FileNotFoundError", print |-> "Error: File not found"],
       [catch |-> "psycopg2.Error",    print |-> "Database error"] >>

\* the except clauses of main(), in order: class caught, message printed
except_clauses ==
    << [catch |-> "FileNotFoundError", print |-> "Error: File not found"],
       [catch |-> "psycopg2.Error",    print |-> "Database error"],
       [catch |-> "Exception",         print |-> "Unexpected error"] >>

\* the first clause that matches, 0 when none does
Handler(cls) ==
    LET M == {k \in DOMAIN except_clauses : IsInstance(cls, except_clauses[k].catch)}
    IN  IF M = {} THEN 0 ELSE CHOOSE k \in M : \A m \in M : k <= m

\* insert_pbc_data: the column list of the INSERT and of its ON CONFLICT
\* (id) DO UPDATE SET
insert_columns ==
    <<"id", "futime", "status", "drug", "age", "sex", "ascites", "hepato", "spiders",
      "edema", "bili", "chol", "albumin", "copper", "alk_phos", "sgot", "trig",
      "platelet", "protime", "stage">>

update_set ==
    {"futime", "status", "drug", "age", "sex", "ascites", "hepato", "spiders",
     "edema", "bili", "chol", "albumin", "copper", "alk_phos", "sgot", "trig",
     "platelet", "protime", "stage"}

\* A database value: a number, NULL, or the float NaN.
DbNum(v) == [k |-> "num", v |-> v]
DbNull == [k |-> "NULL", v |-> 0]
DbNaN == [k |-> "NaN", v |-> 0]

\* psycopg2's adaptation of a cell of df_clean.values: NaN goes as 'NaN'
Adapt(cell) == IF cell.na THEN DbNaN ELSE DbNum(cell.v)

\* values = [tuple(row) for row in df_clean.values], bound by position to
\* the INSERT's column list
Values(f) ==
    [i \in DOMAIN f.rows |->
        [c \in Range(insert_columns) |->
            Adapt(f.rows[i][f.cols[IndexOf(insert_columns, c)]])]]

\* INSERT ... ON CONFLICT (id) DO UPDATE SET ... of one row
Upsert(rows, r) ==
    IF \E x \in rows : x["id"] = r["id"]
    THEN {x \in rows : x["id"] # r["id"]}
           \cup {[c \in DOMAIN x |-> IF c \in update_set THEN r[c] ELSE x[c]] :
                   x \in {y \in rows : y["id"] = r["id"]}}
    ELSE rows \cup {r}

RECURSIVE UpsertAll(_, _)
UpsertAll(rows, vals) ==
    IF vals = <<>> THEN rows
    ELSE UpsertAll(Upsert(rows, Head(vals)), Tail(vals))

\* one INSERT cannot touch the same row twice: PostgreSQL refuses a batch
\* that holds an identifier twice
HasDuplicateId(vals) ==
    \E i, k \in DOMAIN vals : i # k /\ vals[i]["id"] = vals[k]["id"]

\* execute_values cuts the rows into pages of page_size rows (100 unless
\* the caller says otherwise), one INSERT per page
Min(a, b) == IF a < b THEN a ELSE b
NumPages(vals) == (Len(vals) + page_size - 1) \div page_size
Page(vals, p) == SubSeq(vals, (p - 1) * page_size + 1, Min(p * page_size, Len(vals)))
FirstPages(vals, k) == SubSeq(vals, 1, Min(k * page_size, Len(vals)))
PagesAccepted(vals, k) == \A p \in 1..k : ~HasDuplicateId(Page(vals, p))

\* df.fillna(None), line 64.  pandas through 2.x refuses a fill value of
\* None (ValueError: Must specify a fill 'value' or 'method'); a build whose
\* fillna accepts it has nothing to put in place of NaN and returns the
\* table as it is.  No build turns NaN into None.
fillna_None_outcomes == {"ValueError", "unchanged"}

\* the guards of the finally block, lines 173 and 175
cursor_in_locals(l) == "cursor" \in l
\* variant: the connection is closed only when a cursor exists
conn_in_locals_with_cursor(l) == "cursor" \in l
conn_in_locals(l) == "conn" \in l

\* variant: closing the connection commits what is pending
close_connection_commits(db, open_txn) == open_txn

\* conn.close() with a transaction open: psycopg2 rolls it back
close_connection(db, open_txn) == db

\* conn.commit()
commit_transaction(db, open_txn) == open_txn

EmptyDb == [ddl |-> {}, rows |-> {}]

Files ==
    [data   : {[exists |-> FALSE, lines |-> <<>>]}
                \cup {[exists |-> TRUE, lines |-> l] :
                        l \in UNION {[1..n -> LoaderLines] : n \in 0..MaxBatch}},
     schema : {[exists |-> FALSE, stmts |-> 0]}
                \cup {[exists |-> TRUE, stmts |-> n] : n \in 0..MaxStmts}]

CsvIdle ==
    /\ cpc = "idle" /\ txt = <<>> /\ df = NoFrame
    /\ pbc_data_csv = NoFile /\ pbc_ml_ready_csv = NoFile
    /\ csv_path = "" /\ loaded = NoFrame /\ argdf = NoFrame
    /\ surv = NoResult("not called")

FreshRun(n) == [run |-> n, stmts |-> 0, inserted |-> FALSE, commits |-> 0,
                rejected |-> FALSE]

Init ==
    /\ CsvIdle
    /\ pc = "start"
    /\ \E f \in Files : datafile = f.data /\ schemafile = f.schema
    /\ mdf = NoFrame /\ locals = {}
    /\ conns = "none" /\ cursors = "none"
    /\ txn = EmptyDb /\ committed = EmptyDb /\ committed0 = EmptyDb
    /\ exc = "none" /\ printed = <<>>
    /\ hist = FreshRun(1)

Raise(cls) == pc' = "except" /\ exc' = cls

\* a refusal by the database server or the driver
DbRaise(cls) == Raise(cls) /\ hist' = [hist EXCEPT !.rejected = TRUE]

\* lines 122-126: read_pbc_data(pbc_file)
MainReadData ==
    /\ pc = "start"
    /\ IF ~datafile.exists THEN Raise("FileNotFoundError") /\ mdf' = mdf
       ELSE IF datafile.lines = <<>> THEN Raise("EmptyDataError") /\ mdf' = mdf
       ELSE /\ mdf' = read_csv(datafile.lines, columns, {Dot})
            /\ pc' = "connect" /\ exc' = exc
    /\ UNCHANGED <<datafile, schemafile, locals, conns, cursors, txn, committed,
                   committed0, printed, hist>>
    /\ UNCHANGED cvars

\* lines 129-130: conn = psycopg2.connect(**db_params)
MainConnect ==
    /\ pc = "connect"
    /\ \/ /\ DbRaise("OperationalError")
          /\ UNCHANGED <<locals, conns, txn>>
       \/ /\ conns' = "open" /\ locals' = locals \cup {"conn"}
          /\ txn' = committed
          /\ pc' = "cursor"
          /\ UNCHANGED <<exc, hist>>
    /\ UNCHANGED <<datafile, schemafile, mdf, cursors, committed, committed0, printed>>
    /\ UNCHANGED cvars

\* line 131: cursor = conn.cursor()
MainCursor ==
    /\ pc = "cursor"
    /\ \/ /\ DbRaise("InterfaceError")
          /\ UNCHANGED <<locals, cursors>>
       \/ /\ cursors' = "open" /\ locals' = locals \cup {"cursor"}
          /\ pc' = "schema_open"
          /\ UNCHANGED <<exc, hist>>
    /\ UNCHANGED <<datafile, schemafile, mdf, conns, txn, committed, committed0, printed>>
    /\ UNCHANGED cvars

\* load_schema_from_file, lines 47-51: open and split the schema file
LoadSchemaOpen ==
    /\ pc = "schema_open"
    /\ IF ~schemafile.exists THEN Raise("FileNotFoundError")
       ELSE pc' = "schema_exec" /\ exc' = exc
    /\ UNCHANGED <<datafile, schemafile, mdf, locals, conns, cursors, txn, committed,
                   committed0, printed, hist>>
    /\ UNCHANGED cvars

\* load_schema_from_file, lines 52-53: cursor.execute(statement), one
\* statement per step; after the last one control is back in main()
LoadSchemaExecute ==
    /\ pc = "schema_exec"
    /\ IF hist.stmts = schemafile.stmts
       THEN pc' = "insert" /\ UNCHANGED <<exc, hist, txn>>
       ELSE \/ DbRaise("ProgrammingError") /\ txn' = txn
            \/ /\ txn' = [txn EXCEPT !.ddl = @ \cup {hist.stmts + 1}]
               /\ hist' = [hist EXCEPT !.stmts = @ + 1]
               /\ UNCHANGED <<pc, exc>>
    /\ UNCHANGED <<datafile, schemafile, mdf, locals, conns, cursors, committed,
                   committed0, printed>>
    /\ UNCHANGED cvars

\* insert_pbc_data, lines 64-95.  execute_values sends the rows page by
\* page; the database may refuse any page, and the pages before it stay in
\* the open transaction.
InsertPbcData ==
    /\ pc = "insert"
    /\ \E o \in fillna_None_outcomes :
         IF o = "ValueError"
         THEN Raise("ValueError") /\ UNCHANGED <<txn, hist>>
         ELSE LET vals == Values(mdf)
                  n    == NumPages(vals)
              IN  \E k \in 0..n :
                    /\ PagesAccepted(vals, k)
                    /\ txn' = [txn EXCEPT !.rows = UpsertAll(@, FirstPages(vals, k))]
                    /\ IF k = n
                       THEN /\ hist' = [hist EXCEPT !.inserted = TRUE]
                            /\ pc' = "commit" /\ exc' = exc
                       ELSE DbRaise("DataError")
    /\ UNCHANGED <<datafile, schemafile, mdf, locals, conns, cursors, committed,
                   committed0, printed>>
    /\ UNCHANGED cvars

\* line 142: conn.commit()
MainCommit ==
    /\ pc = "commit"
    /\ \/ /\ Raise("OperationalError")
          /\ hist' = [hist EXCEPT !.rejected = TRUE, !.commits = @ + 1]
          /\ UNCHANGED committed
       \/ /\ committed' = commit_transaction(committed, txn)
          /\ hist' = [hist EXCEPT !.commits = @ + 1]
          /\ pc' = "count" /\ exc' = exc
    /\ UNCHANGED <<datafile, schemafile, mdf, locals, conns, cursors, txn,
                   committed0, printed>>
    /\ UNCHANGED cvars

\* lines 146-148: SELECT COUNT(*) FROM pbc_patients
MainCount ==
    /\ pc = "count"
    /\ \/ DbRaise("ProgrammingError")
       \/ pc' = "summary" /\ UNCHANGED <<exc, hist>>
    /\ UNCHANGED <<datafile, schemafile, mdf, locals, conns, cursors, txn, committed,
                   committed0, printed>>
    /\ UNCHANGED cvars

\* lines 150-162: the summary query
MainSummary ==
    /\ pc = "summary"
    /\ \/ DbRaise("ProgrammingError")
       \/ pc' = "finally_cursor" /\ UNCHANGED <<exc, hist>>
    /\ UNCHANGED <<datafile, schemafile, mdf, locals, conns, cursors, txn, committed,
                   committed0, printed>>
    /\ UNCHANGED cvars

\* lines 164-171: the first matching except clause prints its message; an
\* exception no clause matches stays in flight through the finally block
MainExcept ==
    /\ pc = "except"
    /\ IF Handler(exc) = 0 THEN printed' = printed
       ELSE printed' = Append(printed, except_clauses[Handler(exc)].print)
    /\ pc' = "finally_cursor"
    /\ UNCHANGED <<datafile, schemafile, mdf, locals, conns, cursors, txn, committed,
                   committed0, exc, hist>>
    /\ UNCHANGED cvars

\* lines 173-174: if 'cursor' in locals(): cursor.close()
FinallyCursor ==
    /\ pc = "finally_cursor"
    /\ cursors' = IF cursor_in_locals(locals) THEN "closed" ELSE cursors
    /\ pc' = "finally_conn"
    /\ UNCHANGED <<datafile, schemafile, mdf, locals, conns, txn, committed,
                   committed0, exc, printed, hist>>
    /\ UNCHANGED cvars

\* lines 175-176: if 'conn' in locals(): conn.close(); then main() is left,
\* normally or with the exception no clause caught
FinallyConn ==
    /\ pc = "finally_conn"
    /\ IF conn_in_locals(locals)
       THEN /\ conns' = "closed"
            /\ committed' = close_connection(committed, txn)
       ELSE UNCHANGED <<conns, committed>>
    /\ pc' = IF exc # "none" /\ Handler(exc) = 0 THEN "propagated" ELSE "returned"
    /\ UNCHANGED <<datafile, schemafile, mdf, locals, cursors, txn,
                   committed0, exc, printed, hist>>
    /\ UNCHANGED cvars

\* the operator runs the loader again, against the same database and with
\* the same schema file
Rerun ==
    /\ pc = "returned"
    /\ hist.run < MaxRuns
    /\ \E f \in Files : datafile' = f.data
    /\ UNCHANGED schemafile
    /\ pc' = "start"
    /\ mdf' = NoFrame /\ locals' = {} /\ conns' = "none" /\ cursors' = "none"
    /\ txn' = EmptyDb /\ committed0' = committed
    /\ exc' = "none" /\ printed' = <<>>
    /\ hist' = FreshRun(hist.run + 1)
    /\ UNCHANGED committed
    /\ UNCHANGED cvars

Next ==
    \/ MainReadData
    \/ MainConnect
    \/ MainCursor
    \/ LoadSchemaOpen
    \/ LoadSchemaExecute
    \/ InsertPbcData
    \/ MainCommit
    \/ MainCount
    \/ MainSummary
    \/ MainExcept
    \/ FinallyCursor
    \/ FinallyConn
    \/ Rerun

Spec == Init /\ [][Next]_vars

(***************************************************************************)
(* Properties of the database loader (checked under Spec)                  *)
(***************************************************************************)
Left == pc \in {"returned", "propagated"}       \* main() has been left
DbErrors == {"psycopg2.Error", "OperationalError", "InterfaceError",
             "ProgrammingError", "DataError"}

\* C1: when main() is left, on whatever path, no connection and no cursor
\* opened during the run is still open.
C1_AllClosed ==
    Left => conns # "open" /\ cursors # "open"

C1_Witness ==
    /\ pc = "returned" /\ exc = "InterfaceError"
    /\ conns = "closed" /\ cursors = "none"

\* C2: commit is issued at most once per run and only after every schema
\* statement and the batch insert succeeded; the committed contents change
\* only by that commit and then hold a row for every input identifier; when
\* the schema load or the insertion failed, nothing is committed and on
\* leaving main() the committed contents are those found at its start.
C2_SingleCommit ==
    /\ hist.commits <= 1
    /\ hist.commits = 1 =>
         schemafile.exists /\ hist.stmts = schemafile.stmts /\ hist.inserted
    /\ committed # committed0 =>
         /\ hist.commits = 1
         /\ \A i \in DOMAIN mdf.rows :
              \E r \in committed.rows : r["id"] = DbNum(mdf.rows[i]["id"].v)
    /\ Left /\ ~(hist.stmts = schemafile.stmts /\ hist.inserted) =>
         hist.commits = 0 /\ committed = committed0

C2_Witness ==
    /\ pc = "returned" /\ exc = "DataError"
    /\ hist.stmts > 0 /\ txn.ddl # committed.ddl
    /\ txn.rows # committed.rows
    /\ committed = committed0

\* C3: when both files exist and the database refuses nothing, after main()
\* returns pbc_patients holds, for every identifier of the input, exactly one
\* committed row whose 19 other columns are the input's values, '.' as NULL.
C3_UpsertsAll ==
    pc = "returned" /\ datafile.exists /\ schemafile.exists /\ ~hist.rejected =>
      \A i \in DOMAIN datafile.lines :
        LET R == {r \in committed.rows : r["id"] = DbNum(ParseNumber(datafile.lines[i][1]))}
        IN  /\ Cardinality(R) = 1
            /\ \A r \in R : \A j \in 2..Len(columns) :
                 r[columns[j]] = (IF datafile.lines[i][j] = Dot THEN DbNull
                                  ELSE DbNum(ParseNumber(datafile.lines[i][j])))

\* C4: an exception raised at any step of main() is caught: main() is left
\* by returning, and what was printed is the message of the exception's own
\* class and nothing else (file not found / database error / any other).
C4_Reported ==
    /\ pc # "propagated"
    /\ exc # "none" => pc \in {"except", "finally_cursor", "finally_conn", "returned"}
    /\ pc \in {"finally_cursor", "finally_conn", "returned"} =>
         printed = (IF exc = "none" THEN <<>>
                    ELSE IF exc = "FileNotFoundError" THEN <<"Error: File not found">>
                    ELSE IF exc \in DbErrors THEN <<"Database error">>
                    ELSE <<"Unexpected error">>)

C4_Witness ==
    /\ pc = "returned" /\ exc = "FileNotFoundError" /\ conns = "closed"
    /\ printed = <<"Error: File not found">>

(***************************************************************************)
(* Properties of the CSV pipeline (checked under SpecCsv)                  *)
(***************************************************************************)
Field(file, i, name) == file.lines[i][IndexOf(file.header, name)]
Src(i, name) == txt[i][IndexOf(columns, name)]
One == <<"1">>
Zero == <<"0">>
Saved == cpc \in {"raw_saved", "converted", "loaded", "done"}
Converted == cpc \in {"converted", "loaded", "done"}
ReadBackRaw == cpc \in {"loaded", "done"} /\ csv_path = "pbc_data.csv"

\* C5: pbc_data.csv read back by load_pbc_data holds, row by row in the
\* source order and field by field, the value parsed from the source line:
\* a '.' field is the empty field in the CSV and missing after reading back
\* (not zero), and a present field is present with the same value.
C5_RoundTrip ==
    /\ Saved =>
         /\ Len(pbc_data_csv.lines) = Len(txt)
         /\ \A i \in DOMAIN txt : \A j \in DOMAIN columns :
              (txt[i][j] = Dot) <=> (pbc_data_csv.lines[i][j] = <<>>)
    /\ ReadBackRaw =>
         /\ loaded.cols = columns
         /\ Len(loaded.rows) = Len(txt)
         /\ \A i \in DOMAIN txt : \A j \in DOMAIN columns :
              LET cell == loaded.rows[i][columns[j]]
              IN  /\ (txt[i][j] = Dot) <=> cell.na
                  /\ txt[i][j] # Dot => cell = Num(ParseNumber(txt[i][j]))
                  /\ cell = df.rows[i][columns[j]]

C5_Witness ==
    /\ ReadBackRaw
    /\ \E i \in DOMAIN txt : \E j, k \in DOMAIN columns :
         /\ txt[i][j] = Dot
         /\ HasPoint(txt[i][k]) /\ txt[i][k] # Dot
         /\ loaded.rows[i][columns[k]].v % Scale # 0

\* C8: in pbc_ml_ready.csv, row i is source line i; its death_event is 1
\* exactly when the line's status is 2 and 0 otherwise (status missing
\* included); its first 20 fields carry the source line's values.
C8_DeathEvent ==
    Converted =>
      /\ Len(pbc_ml_ready_csv.lines) = Len(txt)
      /\ \A i \in DOMAIN txt :
           /\ Field(pbc_ml_ready_csv, i, "death_event") =
                (IF Src(i, "status") # Dot /\ ParseNumber(Src(i, "status")) = 2 * Scale
                 THEN One ELSE Zero)
           /\ \A j \in DOMAIN columns :
                /\ pbc_ml_ready_csv.header[j] = columns[j]
                /\ ParseCell(pbc_ml_ready_csv.lines[i][j], NaTokens({}))
                     = ParseCell(txt[i][j], NaTokens({Dot}))

C8_Witness ==
    /\ Converted
    /\ \E i, k \in DOMAIN txt :
         /\ Src(i, "status") = <<"2">> /\ Field(pbc_ml_ready_csv, i, "death_event") = One
         /\ Src(k, "status") = Dot /\ Field(pbc_ml_ready_csv, k, "death_event") = Zero
         /\ i < k

\* C9 as stated: pbc_data.csv has the 20 source columns in order and
\* pbc_ml_ready.csv has those 20 followed by four derived columns, 24 in all.
C9_FourDerived ==
    Converted =>
      /\ pbc_data_csv.header = columns
      /\ SubSeq(pbc_ml_ready_csv.header, 1, 20) = columns
      /\ Len(pbc_ml_ready_csv.header) = 24

\* C9 amended: pbc_data.csv has the 20 source columns in order and
\* pbc_ml_ready.csv has those 20 followed by the five derived columns
\* age_years, death_event, male, female, drug_treatment, 25 in all; every
\* line has one field per column.
C9_FiveDerived ==
    /\ Saved =>
         /\ pbc_data_csv.header = columns
         /\ Len(pbc_data_csv.header) = 20
         /\ \A i \in DOMAIN pbc_data_csv.lines : Len(pbc_data_csv.lines[i]) = 20
    /\ Converted =>
         /\ pbc_ml_ready_csv.header =
              columns \o <<"age_years", "death_event", "male", "female", "drug_treatment">>
         /\ Len(pbc_ml_ready_csv.header) = 25
         /\ \A i \in DOMAIN pbc_ml_ready_csv.lines : Len(pbc_ml_ready_csv.lines[i]) = 25

C9_Witness ==
    /\ Converted
    /\ Len(pbc_ml_ready_csv.lines) = MaxRows
    /\ Len(pbc_ml_ready_csv.header) = Len(pbc_data_csv.header) + 5

\* C10 as stated: on every row of pbc_ml_ready.csv exactly one of male and
\* female is 1, a row whose sex is '.' included.
C10_OneHot ==
    Converted =>
      \A i \in DOMAIN txt :
        /\ Field(pbc_ml_ready_csv, i, "male") = One <=> Src(i, "sex") = Zero
        /\ Field(pbc_ml_ready_csv, i, "female") = One <=> Src(i, "sex") = One
        /\ (Field(pbc_ml_ready_csv, i, "male") = One)
             # (Field(pbc_ml_ready_csv, i, "female") = One)

\* C10 amended: male is 1 iff sex == 0 and female is 1 iff sex == 1, each 0
\* otherwise; never both 1; exactly one is 1 on a row whose sex is 0 or 1,
\* and both are 0 on a row whose sex is missing ('.').
C10_OneHotWhenPresent ==
    Converted =>
      \A i \in DOMAIN txt :
        LET m == Field(pbc_ml_ready_csv, i, "male")
            f == Field(pbc_ml_ready_csv, i, "female")
        IN  /\ m \in {Zero, One} /\ f \in {Zero, One}
            /\ m = One <=> Src(i, "sex") = Zero
            /\ f = One <=> Src(i, "sex") = One
            /\ ~(m = One /\ f = One)
            /\ Src(i, "sex") \in {Zero, One} => (m = One) # (f = One)
            /\ Src(i, "sex") = Dot => m = Zero /\ f = Zero

C10_Witness ==
    /\ Converted
    /\ \E i, k \in DOMAIN txt :
         /\ Src(i, "sex") = Dot
         /\ Field(pbc_ml_ready_csv, i, "male") = Zero
         /\ Field(pbc_ml_ready_csv, i, "female") = Zero
         /\ Src(k, "sex") = One /\ Field(pbc_ml_ready_csv, k, "female") = One


Needed == {"futime", "death_event"} \cup Range(feature_cols)
Called == cpc = "done"

\* C6 as stated: get_survival_data on a table with N rows returns T, E and
\* X with N entries each, and X's columns are the feature list less the
\* names that are not columns of the table (the call still returns).
C6_LeavesOutMissing ==
    Called =>
      /\ surv.status = "returned"
      /\ Len(surv.T) = Len(argdf.rows)
      /\ Len(surv.E) = Len(argdf.rows)
      /\ Len(surv.X.rows) = Len(argdf.rows)
      /\ surv.X.cols = SelectSeq(feature_cols, LAMBDA c : c \in Range(argdf.cols))

\* C6 amended: when get_survival_data returns, T, E and X have exactly N
\* entries/rows in the input's row order and X's columns are exactly the 17
\* feature names in their fixed order; if futime, death_event or any of the
\* 17 names is not a column of the input nothing is left out, the call
\* raises KeyError; with all of them present the only other outcome is the
\* TypeError raised while filling a nullable-integer column that has both
\* missing and present values.
C6_ExactColumns ==
    Called =>
      LET N == Len(argdf.rows)
      IN  /\ ~(Needed \subseteq Range(argdf.cols)) => surv.status = "KeyError"
          /\ Needed \subseteq Range(argdf.cols) => surv.status \in {"returned", "TypeError"}
          /\ surv.status = "TypeError" =>
               \E c \in Range(feature_cols) :
                  /\ argdf.dtype[c] = "Int64"
                  /\ \E i, k \in 1..N : argdf.rows[i][c].na /\ ~argdf.rows[k][c].na
          /\ surv.status = "returned" =>
               /\ Len(surv.T) = N /\ Len(surv.E) = N /\ Len(surv.X.rows) = N
               /\ surv.X.cols = feature_cols
               /\ Len(surv.X.cols) = 17
               /\ \A i \in 1..N :
                    /\ surv.T[i] = argdf.rows[i]["futime"]
                    /\ surv.E[i] = argdf.rows[i]["death_event"]
                    /\ DOMAIN surv.X.rows[i] = Range(feature_cols)
                    /\ \A c \in Range(feature_cols) :
                         ~argdf.rows[i][c].na => surv.X.rows[i][c] = argdf.rows[i][c]

C6_Witness ==
    /\ Called /\ surv.status = "returned"
    /\ Len(surv.X.rows) = 2
    /\ surv.T[1] # surv.T[2]
    /\ surv.X.rows[1] # surv.X.rows[2]

\* C7: get_survival_data on a table that has every column it reads returns a
\* matrix in which every value that was missing is the median of the present
\* values of its column, every present value is unchanged, and nothing is
\* missing.
C7_MedianImputed ==
    Called /\ Needed \subseteq Range(argdf.cols) =>
      /\ surv.status = "returned"
      /\ \A i \in DOMAIN argdf.rows : \A c \in Range(feature_cols) :
           /\ ~argdf.rows[i][c].na => surv.X.rows[i][c] = argdf.rows[i][c]
           /\ argdf.rows[i][c].na => surv.X.rows[i][c] = median(argdf.rows, c)
           /\ ~surv.X.rows[i][c].na

====
